---------------------------- MODULE Spec2Model ----------------------------
(***************************************************************************)
(* A model of the video-to-GIF converter: the timeline widget's primary    *)
(* range and excluded segments (src/timeline_widget.py), and the frame     *)
(* sampling / export engine (src/video_processor.py).                      *)
(*                                                                         *)
(* Times are the code's float seconds, modelled exactly as integer ticks   *)
(* (TicksPerSecond ticks to the second); quotients that need not be whole  *)
(* are kept as fractions <<numerator, denominator>>.                       *)
(***************************************************************************)
EXTENDS Integers, Sequences, FiniteSets, TLC

\* ------------------------------------------------------------------ bounds
\* Largest time (in ticks) of a range drawn for the segment planner.
MaxTime == 5
\* Longest raw list of excluded ranges drawn for the segment planner.
MaxExcluded == 2

\* Ticks per second of the time axis.
TicksPerSecond == 20
\* The 0.1 s the widget uses as smallest gap and smallest selection.
Gap == TicksPerSecond \div 10

\* The sliders' range, setRange(0, 1000).
SliderMax == 1000
\* thumbnail_strip.width(), in pixels.
StripWidth == 5

VARIABLES
    \* TimelineWidget
    duration,             \* self.duration
    start_time,           \* self.start_time
    end_time,             \* self.end_time
    excluded_segments,    \* self.excluded_segments, a sequence of <<start, end>>
    selecting_exclusion,  \* self.selecting_exclusion
    temp_exclusion_start, \* self.temp_exclusion_start: None or <<time>>
    start_slider,         \* self.start_slider.value()
    end_slider,           \* self.end_slider.value()
    controls_enabled,     \* the sliders and the trim button are enabled
    widget_enabled,       \* the widget is enabled (it takes input events)
    \* results of the planner applied to the widget's state
    plan,                 \* [done, raw, merged, of_merged]: what the planner returned
    \* VideoProcessor and one call of create_gif or generate_preview
    env,                  \* [impl, cap_open, path_exists, bad, odd]: the source and the decoder
    call,                 \* [op, start_time, end_time, fps, dimensions, crop_rect, segments, speed]
    pc,                   \* where the call is
    loc,                  \* create_gif's local variables
    progress,             \* the values passed to progress_callback, in order
    written,              \* the encoder writes performed, in order
    result,               \* what create_gif returned: None, <<TRUE>> or <<FALSE>>
    preview,              \* what generate_preview returned: [returned, frames, fps_x100]
    \* VideoProcessor's source and one call of load_video
    vp,                   \* [cap, video_path, fps, frame_count, duration]
    handles,              \* the decoder handles created so far: [kind, opened, released]
    ld,                   \* load_video's call: [pc, path, file, new, ret]
    lookup,               \* the last get_frame_at_time on the source: [t, frame, asked]
    \* MainWindow
    fps_spin,             \* self.fps_spin.value()
    build,                \* MainWindow.generate_preview's call: [pc, at_start, read, passed]
    cancel,               \* the user's request to cancel the export: [requested, seg]
    \* PreviewWidget
    pw,                   \* [current_pixmap, preview_frames, playing, enable_crop, crop_mode,
                          \*  crop_start, crop_end, crop_rect, crop_on]
    \* MainWindow: loading, previewing and saving
    current_file,         \* self.current_file: None or <<path>>
    speed_slider,         \* self.speed_slider.value(), the speed factor in percent
    played,               \* the fps (in hundredths) play_preview was last given
    saved,                \* save_file's encoder writes, in order: [source, fps_x100, played]
    \* one application of VideoProcessor._apply_processing
    ap                    \* [shape, dimensions, crop_rect, out]

tlVars == <<duration, start_time, end_time, excluded_segments,
            selecting_exclusion, temp_exclusion_start,
            start_slider, end_slider, controls_enabled, widget_enabled>>
vars == <<duration, start_time, end_time, excluded_segments,
          selecting_exclusion, temp_exclusion_start,
          start_slider, end_slider, controls_enabled, widget_enabled, plan,
          env, call, pc, loc, progress, written, result, preview,
          vp, handles, ld, lookup, fps_spin, build, cancel, pw,
          current_file, speed_slider, played, saved, ap>>
ldVars == <<vp, handles, ld, lookup>>
mwVars == <<fps_spin, build, cancel, pw>>
sessVars == <<current_file, speed_slider, played, saved>>
appVars == <<ldVars, mwVars, sessVars, ap>>
engVars == <<env, call, pc, loc, progress, written, result, preview>>

\* None; a field that may be None holds <<>> or <<value>>.
None == <<>>

NoLoc == [i |-> 0, f |-> 0,
          clip |-> [start |-> 0, end_time |-> 0, duration |-> 0, resized |-> FALSE],
          seg_duration |-> 0, frame_count |-> 0, segment_frames |-> <<>>,
          all_frames |-> <<>>, frames |-> <<>>, correct_shape |-> <<0, 0, 0>>,
          samples |-> <<>>]

\* generate_preview has not returned.
NoPreview == [returned |-> "no", frames |-> <<>>, fps_x100 |-> 0]

\* VideoProcessor.__init__, and no load_video call.
NoFile == [gif |-> FALSE, opens |-> FALSE, clip_ok |-> FALSE, fps |-> 0, frames |-> 0]
NoLoad == [pc |-> "idle", path |-> None, file |-> NoFile, new |-> None, ret |-> None]
NoLookup == [t |-> 0, frame |-> None, asked |-> FALSE]
LoaderIdle ==
    /\ vp = [cap |-> None, video_path |-> None, fps |-> 0, frame_count |-> 0,
             duration |-> 0]
    /\ handles = <<>>
    /\ ld = NoLoad
    /\ lookup = NoLookup

\* MainWindow.__init__, and no preview is being built.
NoSnapshot == [start_time |-> 0, end_time |-> 0, fps |-> 0, excluded_segments |-> <<>>]
NoArgs == [start_time |-> 0, end_time |-> 0, fps |-> 0, segments |-> None]
NoBuild == [pc |-> "idle", at_start |-> NoSnapshot, read |-> NoArgs,
            passed |-> NoArgs, called |-> FALSE]
NoCancel == [requested |-> FALSE, seg |-> 0]
\* PreviewWidget.__init__
NoPreviewWidget ==
    [current_pixmap |-> None, preview_frames |-> None, playing |-> FALSE,
     enable_crop |-> FALSE, crop_mode |-> FALSE, crop_start |-> None,
     crop_end |-> None, crop_rect |-> None, crop_on |-> None]
\* No frame has been handed to _apply_processing.
NoProcessing == [shape |-> <<0, 0, 0>>, dimensions |-> <<0, 0>>, crop_rect |-> None,
                 out |-> None]
MainWindowIdle ==
    /\ fps_spin = 1
    /\ build = NoBuild
    /\ cancel = NoCancel
    /\ pw = NoPreviewWidget
    /\ current_file = None
    /\ speed_slider = 100
    /\ played = 0
    /\ saved = <<>>
    /\ ap = NoProcessing

\* No call is made: the engine's variables stay as they are.
EngineIdle ==
    /\ env = [impl |-> "moviepy", cap_open |-> FALSE, path_exists |-> FALSE,
              bad |-> {}, odd |-> {}]
    /\ call = [op |-> "none", start_time |-> 0, end_time |-> 0, fps |-> 0,
               dimensions |-> <<0, 0>>, crop_rect |-> None, segments |-> <<>>,
               speed |-> 100]
    /\ pc = "idle"
    /\ loc = NoLoc
    /\ progress = <<>>
    /\ written = <<>>
    /\ result = None
    /\ preview = NoPreview

\* ------------------------------------------------------- pure functions
\* Python's order on (start, end) tuples, used by sorted().
TupleLess(x, y) == x[1] < y[1] \/ (x[1] = y[1] /\ x[2] < y[2])

RECURSIVE InsertSorted(_, _)
InsertSorted(x, s) ==
    IF s = <<>> THEN <<x>>
    ELSE IF TupleLess(Head(s), x) THEN <<Head(s)>> \o InsertSorted(x, Tail(s))
    ELSE <<x>> \o s

\* sorted(segments)
RECURSIVE sorted(_)
sorted(s) == IF s = <<>> THEN <<>> ELSE InsertSorted(Head(s), sorted(Tail(s)))

Max(a, b) == IF a >= b THEN a ELSE b
Min(a, b) == IF a <= b THEN a ELSE b

\* MergeStep that leaves touching ranges apart (< for <=).
MergeStep_StrictOverlap(merged, current) ==
    LET previous == merged[Len(merged)] IN
    IF current[1] < previous[2]
    THEN [merged EXCEPT ![Len(merged)] = <<previous[1], Max(previous[2], current[2])>>]
    ELSE Append(merged, current)

\* MergeStep that takes the later range's end for the merged range.
MergeStep_LastEnd(merged, current) ==
    LET previous == merged[Len(merged)] IN
    IF current[1] <= previous[2]
    THEN [merged EXCEPT ![Len(merged)] = <<previous[1], current[2]>>]
    ELSE Append(merged, current)

\* One turn of merge_overlapping_segments' loop: merged is non-empty.
MergeStep(merged, current) ==
    LET previous == merged[Len(merged)] IN
    IF current[1] <= previous[2]
    THEN [merged EXCEPT ![Len(merged)] = <<previous[1], Max(previous[2], current[2])>>]
    ELSE Append(merged, current)

RECURSIVE MergeLoop(_, _)
MergeLoop(merged, rest) ==
    IF rest = <<>> THEN merged
    ELSE MergeLoop(MergeStep(merged, Head(rest)), Tail(rest))

\* merge_overlapping_segments(segments)
merge_overlapping_segments(segments) ==
    IF segments = <<>> THEN <<>>
    ELSE LET sorted_segments == sorted(segments) IN
         MergeLoop(<<Head(sorted_segments)>>, Tail(sorted_segments))

\* EffectiveStep with the cursor left at the start of the exclusion.
EffectiveStep_CursorAtStart(st, excl, s, e) ==
    IF excl[2] <= s \/ excl[1] >= e THEN st
    ELSE LET exclusion_start == Max(excl[1], s)
         IN [eff |-> IF exclusion_start > st.cur
                     THEN Append(st.eff, <<st.cur, exclusion_start>>)
                     ELSE st.eff,
             cur |-> exclusion_start]

\* EffectiveStep that adds the stretch before an exclusion without testing
\* that it has a length.
EffectiveStep_AlwaysAppend(st, excl, s, e) ==
    IF excl[2] <= s \/ excl[1] >= e THEN st
    ELSE [eff |-> Append(st.eff, <<st.cur, Max(excl[1], s)>>),
          cur |-> Min(excl[2], e)]

\* One turn of get_effective_segments' loop; st = [eff, cur].
EffectiveStep(st, excl, s, e) ==
    IF excl[2] <= s \/ excl[1] >= e THEN st
    ELSE LET exclusion_start == Max(excl[1], s)
             exclusion_end == Min(excl[2], e)
         IN [eff |-> IF exclusion_start > st.cur
                     THEN Append(st.eff, <<st.cur, exclusion_start>>)
                     ELSE st.eff,
             cur |-> exclusion_end]

RECURSIVE EffectiveLoop(_, _, _, _)
EffectiveLoop(st, rest, s, e) ==
    IF rest = <<>> THEN st
    ELSE EffectiveLoop(EffectiveStep(st, Head(rest), s, e), Tail(rest), s, e)

\* TimelineWidget.get_effective_segments, as a function of the fields it reads.
get_effective_segments(s, e, excluded) ==
    IF excluded = <<>> THEN << <<s, e>> >>
    ELSE LET st == EffectiveLoop([eff |-> <<>>, cur |-> s], sorted(excluded), s, e) IN
         IF st.cur < e THEN Append(st.eff, <<st.cur, e>>) ELSE st.eff

\* ------------------------------------------------ the segment planner
\* Ranges with start < end on the grid 0..MaxTime.
Ranges == {r \in (0..MaxTime) \X (0..MaxTime) : r[1] < r[2]}

RECURSIVE SeqsUpTo(_, _)
SeqsUpTo(S, n) ==
    IF n = 0 THEN {<<>>}
    ELSE LET shorter == SeqsUpTo(S, n - 1) IN
         shorter \cup {Append(q, x) : q \in {t \in shorter : Len(t) = n - 1}, x \in S}

NoPlan == [done |-> FALSE, raw |-> <<>>, merged |-> <<>>, of_merged |-> <<>>]

\* The widget's other fields as its constructor leaves them.
TimelineIdle ==
    /\ duration = 0
    /\ selecting_exclusion = FALSE
    /\ temp_exclusion_start = None
    /\ start_slider = 0
    /\ end_slider = SliderMax
    /\ controls_enabled = TRUE
    /\ widget_enabled = FALSE

\* Any primary range and any raw list of excluded ranges.
InitSeg ==
    /\ TimelineIdle
    /\ EngineIdle
    /\ LoaderIdle
    /\ MainWindowIdle
    /\ \E r \in Ranges : start_time = r[1] /\ end_time = r[2]
    /\ excluded_segments \in SeqsUpTo(Ranges, MaxExcluded)
    /\ plan = NoPlan

\* get_effective_segments on the list as it is, and on the merged list.
ApplyPlanner ==
    /\ ~plan.done
    /\ plan' = [done |-> TRUE,
                raw |-> get_effective_segments(start_time, end_time, excluded_segments),
                merged |-> merge_overlapping_segments(excluded_segments),
                of_merged |-> get_effective_segments(start_time, end_time,
                                  merge_overlapping_segments(excluded_segments))]
    /\ UNCHANGED <<tlVars, engVars, appVars>>

NextSeg == ApplyPlanner

SpecSeg == InitSeg /\ [][NextSeg]_vars

\* The unit cells [k, k+1) of the time axis a range covers.
Cells(r) == {k \in 0..MaxTime : r[1] <= k /\ k < r[2]}
Covered(segs) == UNION {Cells(segs[i]) : i \in 1..Len(segs)}


\* ------------------------------------------------- the timeline widget
\* int(): truncation toward zero of n / d, d > 0.
Trunc(n, d) == IF n >= 0 THEN n \div d ELSE -((-n) \div d)

\* QSlider.setValue keeps the value inside the slider's range.
SliderClamp(v) == Max(0, Min(SliderMax, v))

\* Durations (ticks) of the sources that are loaded.
Durations == {StripWidth, 2 * StripWidth}
\* Slider positions the user moves a slider to.
SliderStops == {0, 200, 400, 600, 800, 1000}
\* Mouse x positions, some left and right of the thumbnail strip.
MouseXs == (0 - 1)..(StripWidth + 1)

\* TimelineWidget.__init__
InitTimeline ==
    /\ TimelineIdle
    /\ EngineIdle
    /\ LoaderIdle
    /\ MainWindowIdle
    /\ start_time = 0
    /\ end_time = 0
    /\ excluded_segments = <<>>
    /\ plan = NoPlan

\* setup_timeline(duration, thumbnails)
setup_timeline(d) ==
    /\ duration' = d
    /\ start_time' = 0
    /\ end_time' = d
    /\ excluded_segments' = <<>>
    /\ start_slider' = 0
    /\ end_slider' = SliderMax
    /\ widget_enabled' = TRUE
    /\ UNCHANGED <<selecting_exclusion, temp_exclusion_start, controls_enabled, plan, engVars, appVars>>

\* update_start_trim that stops the start at the end instead of Gap before it
update_start_trim_NoGap(v) ==
    /\ widget_enabled /\ controls_enabled
    /\ v # start_slider
    /\ LET new_start == (v * duration) \div SliderMax IN
       IF new_start >= end_time
       THEN /\ start_time' = end_time
            /\ start_slider' = SliderClamp(Trunc(end_time * SliderMax, duration))
       ELSE /\ start_time' = new_start
            /\ start_slider' = v
    /\ UNCHANGED <<duration, end_time, excluded_segments, selecting_exclusion,
                   temp_exclusion_start, end_slider, controls_enabled,
                   widget_enabled, plan, engVars, appVars>>

\* update_start_trim, run when the start slider's value changes to v
update_start_trim(v) ==
    /\ widget_enabled /\ controls_enabled
    /\ v # start_slider
    /\ LET new_start == (v * duration) \div SliderMax IN
       IF new_start >= end_time
       THEN /\ start_time' = end_time - Gap
            /\ start_slider' = SliderClamp(Trunc((end_time - Gap) * SliderMax, duration))
       ELSE /\ start_time' = new_start
            /\ start_slider' = v
    /\ UNCHANGED <<duration, end_time, excluded_segments, selecting_exclusion,
                   temp_exclusion_start, end_slider, controls_enabled,
                   widget_enabled, plan, engVars, appVars>>

\* update_end_trim, run when the end slider's value changes to v
update_end_trim(v) ==
    /\ widget_enabled /\ controls_enabled
    /\ v # end_slider
    /\ LET new_end == (v * duration) \div SliderMax IN
       IF new_end <= start_time
       THEN /\ end_time' = start_time + Gap
            /\ end_slider' = SliderClamp(Trunc((start_time + Gap) * SliderMax, duration))
       ELSE /\ end_time' = new_end
            /\ end_slider' = v
    /\ UNCHANGED <<duration, start_time, excluded_segments, selecting_exclusion,
                   temp_exclusion_start, start_slider, controls_enabled,
                   widget_enabled, plan, engVars, appVars>>

\* start_segment_selection, the trim button's click handler
start_segment_selection ==
    /\ widget_enabled /\ controls_enabled
    /\ selecting_exclusion' = TRUE
    /\ temp_exclusion_start' = None
    /\ controls_enabled' = FALSE
    /\ UNCHANGED <<duration, start_time, end_time, excluded_segments,
                   start_slider, end_slider, widget_enabled, plan, engVars, appVars>>

\* (x_pos / self.thumbnail_strip.width()) * self.duration
TimeAt(x) == (x * duration) \div StripWidth

\* mousePressEvent with the pointer at x
mousePressEvent(x) ==
    /\ widget_enabled
    /\ temp_exclusion_start' =
          IF selecting_exclusion /\ 0 <= x /\ x <= StripWidth
          THEN <<TimeAt(x)>> ELSE temp_exclusion_start
    /\ UNCHANGED <<duration, start_time, end_time, excluded_segments,
                   selecting_exclusion, start_slider, end_slider,
                   controls_enabled, widget_enabled, plan, engVars, appVars>>

\* add_excluded_segment(start_time, end_time) once the dialog is answered Yes
add_excluded_segment(s, e) ==
    merge_overlapping_segments(Append(excluded_segments, <<s, e>>))

\* mouseReleaseEvent with the pointer at x; confirm is the dialog's answer
mouseReleaseEvent(x, confirm) ==
    /\ widget_enabled
    /\ IF ~selecting_exclusion \/ temp_exclusion_start = None
       THEN UNCHANGED <<excluded_segments, selecting_exclusion,
                        temp_exclusion_start, controls_enabled>>
       ELSE LET time_pos == TimeAt(Max(0, Min(x, StripWidth)))
                s == Min(temp_exclusion_start[1], time_pos)
                e == Max(temp_exclusion_start[1], time_pos)
            IN /\ excluded_segments' =
                     IF e - s > Gap /\ confirm
                     THEN add_excluded_segment(s, e)
                     ELSE excluded_segments
               \* exit_segment_selection_mode
               /\ selecting_exclusion' = FALSE
               /\ temp_exclusion_start' = None
               /\ controls_enabled' = TRUE
    /\ UNCHANGED <<duration, start_time, end_time, start_slider, end_slider,
                   widget_enabled, plan, engVars, appVars>>

\* reset_excluded_segments, the reset button's click handler
reset_excluded_segments ==
    /\ widget_enabled
    /\ excluded_segments' = <<>>
    /\ UNCHANGED <<duration, start_time, end_time, selecting_exclusion,
                   temp_exclusion_start, start_slider, end_slider,
                   controls_enabled, widget_enabled, plan, engVars, appVars>>

\* keyPressEvent that leaves the pressed position behind on Escape
keyPressEvent_Escape_KeepsPress ==
    /\ widget_enabled
    /\ IF selecting_exclusion
       THEN /\ selecting_exclusion' = FALSE
            /\ controls_enabled' = TRUE
            /\ UNCHANGED temp_exclusion_start
       ELSE UNCHANGED <<selecting_exclusion, temp_exclusion_start, controls_enabled>>
    /\ UNCHANGED <<duration, start_time, end_time, excluded_segments,
                   start_slider, end_slider, widget_enabled, plan, engVars, appVars>>

\* keyPressEvent with the Escape key
keyPressEvent_Escape ==
    /\ widget_enabled
    /\ IF selecting_exclusion
       THEN /\ selecting_exclusion' = FALSE
            /\ temp_exclusion_start' = None
            /\ controls_enabled' = TRUE
       ELSE UNCHANGED <<selecting_exclusion, temp_exclusion_start, controls_enabled>>
    /\ UNCHANGED <<duration, start_time, end_time, excluded_segments,
                   start_slider, end_slider, widget_enabled, plan, engVars, appVars>>

NextTimeline ==
    \/ \E d \in Durations : setup_timeline(d)
    \/ \E v \in SliderStops : update_start_trim(v)
    \/ \E v \in SliderStops : update_end_trim(v)
    \/ start_segment_selection
    \/ \E x \in MouseXs : mousePressEvent(x)
    \/ \E x \in MouseXs, confirm \in BOOLEAN : mouseReleaseEvent(x, confirm)
    \/ reset_excluded_segments
    \/ keyPressEvent_Escape

SpecTimeline == InitTimeline /\ [][NextTimeline]_vars

\* --------------------------------------------------- the export engine
\* The loaded source: frames per second and number of frames.
SrcFps == 4
SrcFrames == 12
\* Most segments in a segment list handed to the engine.
MaxSegs == 2

\* self.duration = frame_count / fps, in ticks
SourceDuration == (SrcFrames * TicksPerSecond) \div SrcFps
\* Shapes are (height, width, channels), as numpy's frame.shape.
SourceShape == <<2, 3, 3>>
\* A shape the decoder may hand out that is neither the source's nor the target's.
OddShape == <<1, 1, 3>>
AllFrames == 0..(SrcFrames - 1)

\* A resize taking its size argument as (rows, columns).
Resize_Swapped(shape, w, h) == <<w, h, shape[3]>>

\* cv2.resize(frame, (w, h)): the result is h rows by w columns.
Resize(shape, w, h) == <<h, w, shape[3]>>

\* int(seg_duration * fps / speed_factor); speed is the factor in percent.
FrameCount(seg_duration, fps, speed) ==
    (seg_duration * fps * 100) \div (TicksPerSecond * speed)

\* The source frame shown at time num/den ticks: int(t * fps).
SourceFrameAt(num, den) == (num * SrcFps) \div (den * TicksPerSecond)

\* VideoFileClip(self.video_path).subclip(s, e), then crop, resize, set_fps.
\* The library clip is e - s long; the fallback class opens a new clip and
\* only sets its start_time and end_time, so its duration is the file's.
Subclip(s, e, resized) ==
    IF env.impl = "moviepy"
    THEN [start |-> s, end_time |-> e, duration |-> e - s, resized |-> resized]
    ELSE [start |-> Max(0, s), end_time |-> Min(SourceDuration, e),
          duration |-> SourceDuration, resized |-> resized]

\* The shape of the frames a clip yields: the library clip applies its crop
\* and resize; the fallback get_frame returns the decoded frame as it is.
ClipShape(clip) ==
    IF env.impl = "fallback" THEN SourceShape
    ELSE IF clip.resized THEN <<call.dimensions[2], call.dimensions[1], 3>>
    ELSE IF call.crop_rect # None
         THEN <<call.crop_rect[1][4], call.crop_rect[1][3], 3>>
    ELSE SourceShape

\* clip.get_frame(t), t = num/den ticks: the source frame read.
ClipFrameIndex(clip, num, den) ==
    IF env.impl = "moviepy" THEN SourceFrameAt(clip.start * den + num, den)
    ELSE SourceFrameAt(num, den)

\* clip.get_frame(t) fails: the library raises; the fallback returns None,
\* and the caller's frame.shape raises.
GetFrameFails(clip, num, den) ==
    LET k == ClipFrameIndex(clip, num, den) IN k \in env.bad \/ k >= SrcFrames

\* The shape of the frame clip.get_frame(t) returns.
GetFrameShape(clip, num, den) ==
    IF ClipFrameIndex(clip, num, den) \in env.odd THEN OddShape ELSE ClipShape(clip)

\* progress_callback(v)
Report(v) == progress' = Append(progress, v)

\* Times (ticks) at which the ranges handed to the engine start and end.
SegGrid == {0, 10, 20, 40, 60}
EngRanges == {r \in SegGrid \X SegGrid : r[1] < r[2]}
\* Segment lists as get_effective_segments returns them: ordered, apart.
Apart(q) == \A k \in 1..(Len(q) - 1) : q[k][2] < q[k + 1][1]
SegLists == {q \in SeqsUpTo(EngRanges, MaxSegs) : Apart(q)}
FpsChoices == {1, 2, 4}
SpeedChoices == {50, 100, 200, 400}
BadChoices == {{}, AllFrames, {k \in AllFrames : k % 2 = 1}}
OddChoices == {{}, {k \in AllFrames : k % 3 = 1}}
CropChoices == {None, << <<1, 0, 2, 1>> >>}
DimChoices == {<<3, 2>>, <<2, 1>>}

\* A loaded VideoProcessor and the arguments of one call.
InitEngine ==
    /\ TimelineIdle
    /\ LoaderIdle
    /\ MainWindowIdle
    /\ start_time = 0 /\ end_time = 0 /\ excluded_segments = <<>>
    /\ plan = NoPlan
    /\ env \in [impl : {"moviepy", "fallback"}, cap_open : BOOLEAN,
                path_exists : BOOLEAN, bad : BadChoices, odd : OddChoices]
    /\ env.cap_open \/ (env.path_exists /\ env.bad = {} /\ env.odd = {})
    /\ \E op \in {"create_gif", "generate_preview"}, r \in EngRanges,
          segs \in SegLists, fps \in FpsChoices, dims \in DimChoices,
          crop \in CropChoices, speed \in SpeedChoices :
          /\ segs # <<>> => r = <<segs[1][1], segs[Len(segs)][2]>>
          /\ call = [op |-> op, start_time |-> r[1], end_time |-> r[2], fps |-> fps,
                     dimensions |-> dims, crop_rect |-> crop, segments |-> segs,
                     speed |-> speed]
    /\ pc = "call"
    /\ loc = NoLoc
    /\ progress = <<>>
    /\ written = <<>>
    /\ result = None
    /\ preview = NoPreview

\* return v
Return(v) == result' = <<v>> /\ pc' = "done"

\* create_gif: the checks before any frame is read, and the choice of path.
CreateGifEnter ==
    /\ pc = "call" /\ call.op = "create_gif"
    /\ IF ~env.cap_open \/ ~env.path_exists
       THEN Return(FALSE) /\ UNCHANGED loc
       ELSE /\ pc' = IF call.segments # <<>> THEN "segment" ELSE "single"
            /\ loc' = NoLoc
            /\ UNCHANGED result
    /\ UNCHANGED <<appVars, tlVars, plan, preview, env, call, progress, written>>

\* Segmented path: the head of the loop over segments, up to the frame loop.
SegmentBegin ==
    /\ pc = "segment"
    /\ LET n == Len(call.segments)
           seg == call.segments[loc.i + 1]
           clip == Subclip(seg[1], seg[2], TRUE)
       IN /\ Report((loc.i * 40) \div n)
          /\ loc' = [loc EXCEPT !.clip = clip,
                                !.seg_duration = clip.duration,
                                !.frame_count = FrameCount(clip.duration, call.fps, call.speed),
                                !.f = 0,
                                !.segment_frames = <<>>]
          /\ pc' = "frames"
    /\ UNCHANGED <<appVars, tlVars, plan, preview, env, call, written, result>>

\* time_step = seg_duration / frame_count, a fraction of ticks
TimeStep(seg_duration, frame_count) == <<seg_duration, frame_count>>
\* frame_time = f * time_step
FrameTime(f, time_step) == <<f * time_step[1], time_step[2]>>

\* A frame taken at sample f of segment i: offset t in the clip, source
\* frame src, and its shape.
Frame(i, f, t, clip, shape) ==
    [seg |-> i, f |-> f, t |-> t, src |-> ClipFrameIndex(clip, t[1], t[2]),
     shape |-> shape]

\* The samples the call has attempted, in order: loc.samples.
Sample(i, f, t, ok) == [seg |-> i, f |-> f, t |-> t, ok |-> ok]

\* Segmented path: one turn of the loop over a segment's frames.
SegmentFrame ==
    /\ pc = "frames" /\ loc.f < loc.frame_count
    /\ LET n == Len(call.segments)
           f == loc.f
           t == FrameTime(f, TimeStep(loc.seg_duration, loc.frame_count))
           target_width == call.dimensions[1]
           target_height == call.dimensions[2]
           got == GetFrameShape(loc.clip, t[1], t[2])
           shape == IF got[1] # target_height \/ got[2] # target_width
                    THEN Resize(got, target_width, target_height) ELSE got
       IN IF t[1] <= loc.seg_duration * t[2] /\ ~GetFrameFails(loc.clip, t[1], t[2])
          THEN /\ loc' = [loc EXCEPT
                      !.segment_frames = Append(@, Frame(loc.i, f, t, loc.clip, shape)),
                      !.samples = Append(@, Sample(loc.i, f, t, TRUE)),
                      !.f = f + 1]
               /\ IF f % 5 = 0
                  THEN Report(Min(89, 40 + (50 * (loc.i * loc.frame_count + f))
                                              \div (n * loc.frame_count)))
                  ELSE UNCHANGED progress
          ELSE /\ loc' = [loc EXCEPT !.samples = Append(@, Sample(loc.i, f, t, FALSE)),
                                     !.f = f + 1]
               /\ UNCHANGED progress
    /\ UNCHANGED <<appVars, tlVars, plan, preview, env, call, pc, written, result>>

\* [cv2.resize(frame, (w, h)) for frame in frames]
RECURSIVE ResizeAll(_, _, _)
ResizeAll(frames, w, h) ==
    IF frames = <<>> THEN <<>>
    ELSE <<[Head(frames) EXCEPT !.shape = Resize(@, w, h)]>> \o ResizeAll(Tail(frames), w, h)

\* The frames of a list, those whose shape is not `shape` resized to it.
RECURSIVE Compatible(_, _)
Compatible(frames, shape) ==
    IF frames = <<>> THEN <<>>
    ELSE <<IF Head(frames).shape = shape THEN Head(frames)
             ELSE [Head(frames) EXCEPT !.shape = Resize(@, shape[2], shape[1])]>>
         \o Compatible(Tail(frames), shape)

\* The segment's frames as they are added to all_frames.
SegmentContribution(segment_frames, all_frames) ==
    IF segment_frames = <<>> THEN <<>>
    ELSE LET first_frame == segment_frames[1]
             same == SelectSeq(segment_frames, LAMBDA fr : fr.shape = first_frame.shape)
         IN IF all_frames # <<>> /\ same[1].shape # all_frames[1].shape
            THEN ResizeAll(same, all_frames[1].shape[2], all_frames[1].shape[1])
            ELSE same

\* Segmented path: after a segment's frame loop, to the next segment.
SegmentEnd ==
    /\ pc = "frames" /\ loc.f >= loc.frame_count
    /\ loc' = [loc EXCEPT
           !.all_frames = @ \o SegmentContribution(loc.segment_frames, loc.all_frames),
           !.i = @ + 1]
    /\ pc' = IF loc.i + 1 < Len(call.segments) THEN "segment" ELSE "assemble"
    /\ UNCHANGED <<appVars, tlVars, plan, preview, env, call, progress, written, result>>

\* Segmented path: the check of all_frames before the write.
Assemble ==
    /\ pc = "assemble"
    /\ IF loc.all_frames = <<>>
       THEN Return(FALSE) /\ UNCHANGED <<loc, progress>>
       ELSE /\ loc' = [loc EXCEPT !.all_frames = Compatible(@, loc.all_frames[1].shape)]
            /\ Report(90)
            /\ pc' = "write"
            /\ UNCHANGED result
    /\ UNCHANGED <<appVars, tlVars, plan, preview, env, call, written>>

\* imageio.mimsave(output_path, frames, fps=fps, ...), fps in hundredths
\* `by` names the place in create_gif that calls it.
Mimsave(by, frames, fps_x100) ==
    written' = Append(written, [by |-> by, frames |-> frames,
                                whole_clip |-> FALSE, fps_x100 |-> fps_x100])

\* Segmented path: the write; it succeeds or raises.
Write ==
    /\ pc = "write"
    /\ \/ Mimsave("segments", loc.all_frames, call.fps * 100) /\ Report(100) /\ Return(TRUE)
       \/ Return(FALSE) /\ UNCHANGED <<progress, written>>
    /\ UNCHANGED <<appVars, tlVars, plan, preview, env, call, loc>>

\* Single-range path: the clip, and with a speed factor the sample frame.
SingleSetup ==
    /\ pc = "single"
    /\ LET target_width == call.dimensions[1]
           target_height == call.dimensions[2]
           clip == Subclip(call.start_time, call.end_time,
                           target_width # SourceShape[2] \/ target_height # SourceShape[1])
       IN IF call.speed # 100
          THEN IF GetFrameFails(clip, 0, 1)
               THEN Return(FALSE) /\ UNCHANGED loc
               ELSE /\ loc' = [loc EXCEPT
                           !.clip = clip,
                           !.seg_duration = clip.duration,
                           !.correct_shape = GetFrameShape(clip, 0, 1),
                           !.frame_count = FrameCount(clip.duration, call.fps, call.speed),
                           !.f = 0,
                           !.frames = <<>>]
                    /\ pc' = "speed_frames"
                    /\ UNCHANGED result
          ELSE /\ loc' = [loc EXCEPT !.clip = clip, !.seg_duration = clip.duration]
               /\ pc' = "standard"
               /\ UNCHANGED result
    /\ UNCHANGED <<appVars, tlVars, plan, preview, env, call, progress, written>>

\* Single-range path with a speed factor: one turn of the frame loop.
SpeedFrame ==
    /\ pc = "speed_frames" /\ loc.f < loc.frame_count
    /\ LET f == loc.f
           t == FrameTime(f, TimeStep(loc.seg_duration, loc.frame_count))
           got == GetFrameShape(loc.clip, t[1], t[2])
           shape == IF got # loc.correct_shape
                    THEN Resize(got, loc.correct_shape[2], loc.correct_shape[1]) ELSE got
       IN IF t[1] <= loc.seg_duration * t[2] /\ ~GetFrameFails(loc.clip, t[1], t[2])
          THEN /\ loc' = [loc EXCEPT
                      !.frames = Append(@, Frame(0, f, t, loc.clip, shape)),
                      !.samples = Append(@, Sample(0, f, t, TRUE)),
                      !.f = f + 1]
               /\ IF f % 5 = 0
                  THEN Report(Min(89, 30 + (60 * f) \div loc.frame_count))
                  ELSE UNCHANGED progress
          ELSE /\ loc' = [loc EXCEPT !.samples = Append(@, Sample(0, f, t, FALSE)),
                                     !.f = f + 1]
               /\ UNCHANGED progress
    /\ UNCHANGED <<appVars, tlVars, plan, preview, env, call, pc, written, result>>

\* Single-range path with a speed factor: after the frame loop. With no
\* frame the code falls through to the standard methods.
SpeedEnd ==
    /\ pc = "speed_frames" /\ loc.f >= loc.frame_count
    /\ IF loc.frames # <<>>
       THEN /\ loc' = [loc EXCEPT !.frames = Compatible(@, loc.frames[1].shape)]
            /\ Report(80)
            /\ pc' = "speed_write"
       ELSE /\ pc' = "standard"
            /\ UNCHANGED <<loc, progress>>
    /\ UNCHANGED <<appVars, tlVars, plan, preview, env, call, written, result>>

\* Single-range path with a speed factor: the write; it succeeds or raises.
SpeedWrite ==
    /\ pc = "speed_write"
    /\ \/ Mimsave("speed", loc.frames, call.fps * 100) /\ Report(100) /\ Return(TRUE)
       \/ Return(FALSE) /\ UNCHANGED <<progress, written>>
    /\ UNCHANGED <<appVars, tlVars, plan, preview, env, call, loc>>

\* Single-range path, standard methods: progress_callback(30).
Standard ==
    /\ pc = "standard"
    /\ Report(30)
    /\ pc' = "method1"
    /\ UNCHANGED <<appVars, tlVars, plan, preview, env, call, loc, written, result>>

\* frame[y:y+h, x:x+w] on a frame of the given shape: numpy clips the
\* slice to the frame.
CropShape(shape, crop_rect) ==
    LET x == crop_rect[1]  y == crop_rect[2]  w == crop_rect[3]  h == crop_rect[4]
    IN <<Min(y + h, shape[1]) - Min(y, shape[1]),
         Min(x + w, shape[2]) - Min(x, shape[2]), shape[3]>>

\* The decoded frame with index k, as cap.read() returns it.
DecodedShape(k) == IF k \in env.odd THEN OddShape ELSE SourceShape

\* The fallback VideoFileClip.write_gif's loop from its k-th turn on:
\* [frames, error]; a failed read ends the loop, an empty crop makes
\* cv2.resize raise.
RECURSIVE FallbackGifLoop(_, _, _, _, _)
FallbackGifLoop(k, start_frame, total_frames, desired, clip) ==
    LET idx == start_frame + (k * total_frames) \div desired IN
    IF ~(k * total_frames < total_frames * desired /\ k < desired)
        THEN [frames |-> <<>>, error |-> FALSE]
    ELSE IF idx \in env.bad \/ idx >= SrcFrames
        THEN [frames |-> <<>>, error |-> FALSE]
    ELSE LET cropped == IF call.crop_rect # None
                        THEN CropShape(DecodedShape(idx), call.crop_rect[1])
                        ELSE DecodedShape(idx)
             rest == FallbackGifLoop(k + 1, start_frame, total_frames, desired, clip)
         IN IF clip.resized /\ (cropped[1] = 0 \/ cropped[2] = 0)
            THEN [frames |-> <<>>, error |-> TRUE]
            ELSE [frames |-> <<[seg |-> 0, f |-> k, t |-> <<k, 1>>, src |-> idx,
                                shape |-> IF clip.resized
                                          THEN Resize(cropped, call.dimensions[1],
                                                      call.dimensions[2])
                                          ELSE cropped]>> \o rest.frames,
                  error |-> rest.error]

\* The frames the fallback VideoFileClip.write_gif extracts at `fps`.
FallbackGifFrames(clip, fps) ==
    LET start_frame == (clip.start * SrcFps) \div TicksPerSecond
        end_frame == (clip.end_time * SrcFps) \div TicksPerSecond
        desired == ((clip.end_time - clip.start) * fps) \div TicksPerSecond
    IN IF desired > 0
       THEN FallbackGifLoop(0, start_frame, end_frame - start_frame, desired, clip)
       ELSE [frames |-> <<>>, error |-> FALSE]

\* clip.write_gif(output_path, fps=fps, ...) wrote the file.
WriteGif(frames, whole_clip) ==
    written' = Append(written, [by |-> "write_gif", frames |-> frames,
                                whole_clip |-> whole_clip, fps_x100 |-> call.fps * 100])

\* Standard methods, first try: clip.write_gif with optimisation. The
\* library's write_gif writes the clip, raises TypeError/AttributeError, or
\* raises something else; the fallback's catches every error and returns
\* False, which create_gif does not look at.
Method1 ==
    /\ pc = "method1"
    /\ IF env.impl = "moviepy"
       THEN \/ WriteGif(<<>>, TRUE) /\ Report(90) /\ pc' = "finish" /\ UNCHANGED result
            \/ pc' = "method2" /\ UNCHANGED <<progress, written, result>>
            \/ Return(FALSE) /\ UNCHANGED <<progress, written>>
       ELSE LET got == FallbackGifFrames(loc.clip, call.fps) IN
            /\ \/ ~got.error /\ got.frames # <<>> /\ WriteGif(got.frames, FALSE)
               \/ UNCHANGED written
            /\ Report(90) /\ pc' = "finish" /\ UNCHANGED result
    /\ UNCHANGED <<appVars, tlVars, plan, preview, env, call, loc>>

\* Standard methods, second try: clip.write_gif with fewer parameters.
Method2 ==
    /\ pc = "method2"
    /\ \/ WriteGif(<<>>, TRUE) /\ Report(90) /\ pc' = "finish" /\ UNCHANGED loc
       \/ /\ pc' = "method3"
          /\ loc' = [loc EXCEPT !.f = 0, !.frames = <<>>]
          /\ UNCHANGED <<progress, written>>
    /\ UNCHANGED <<appVars, tlVars, plan, preview, env, call, result>>

\* int(clip.duration * fps)
Method3Count == (loc.clip.duration * call.fps) \div TicksPerSecond

\* Standard methods, last resort: one turn of the loop that samples the
\* clip at (t / fps) * speed_factor.
Method3Frame ==
    /\ pc = "method3" /\ loc.f < Method3Count
    /\ LET t == loc.f
           ft == <<t * call.speed * TicksPerSecond, call.fps * 100>>
       IN IF ft[1] <= loc.clip.duration * ft[2]
          THEN IF GetFrameFails(loc.clip, ft[1], ft[2])
               THEN Return(FALSE) /\ UNCHANGED <<loc, progress>>
               ELSE /\ loc' = [loc EXCEPT
                           !.frames = Append(@, Frame(0, t, ft, loc.clip,
                                                     GetFrameShape(loc.clip, ft[1], ft[2]))),
                           !.f = t + 1]
                    /\ IF t % 5 = 0
                       THEN Report(Min(89, 30 + (60 * t * TicksPerSecond)
                                                   \div (loc.clip.duration * call.fps)))
                       ELSE UNCHANGED progress
                    /\ UNCHANGED <<pc, result>>
          ELSE /\ loc' = [loc EXCEPT !.f = t + 1]
               /\ UNCHANGED <<pc, result, progress>>
    /\ UNCHANGED <<appVars, tlVars, plan, preview, env, call, written>>

\* Standard methods, last resort: the write after the loop.
Method3End ==
    /\ pc = "method3" /\ loc.f >= Method3Count
    /\ IF loc.frames # <<>>
       THEN \/ /\ Mimsave("last_resort", loc.frames, call.fps * 100) /\ Report(90)
               /\ pc' = "finish" /\ UNCHANGED result
            \/ Return(FALSE) /\ UNCHANGED <<progress, written>>
       ELSE Return(FALSE) /\ UNCHANGED <<progress, written>>
    /\ UNCHANGED <<appVars, tlVars, plan, preview, env, call, loc>>

\* Standard methods: progress_callback(100), clip.close(), return True.
Finish ==
    /\ pc = "finish"
    /\ Report(100)
    /\ Return(TRUE)
    /\ UNCHANGED <<appVars, tlVars, plan, preview, env, call, loc, written>>

\* VideoProcessor._apply_processing on a frame of the given shape: the
\* shape of the result, or Raises when cv2.resize is given an empty frame.
Raises == <<0, 0, 0>>
_apply_processing(shape, dimensions, crop_rect) ==
    LET cropped == IF crop_rect # None THEN CropShape(shape, crop_rect[1]) ELSE shape
        target_width == dimensions[1]
        target_height == dimensions[2]
    IN IF target_width # cropped[2] \/ target_height # cropped[1]
       THEN IF cropped[1] = 0 \/ cropped[2] = 0 THEN Raises
            ELSE Resize(cropped, target_width, target_height)
       ELSE cropped

\* generate_preview's while loop over one range, from its j-th turn on, with
\* `count` frames taken so far: [frames, raised]. The position after j
\* turns is start_frame + j * frame_step, frame_step =
\* (total_frames / desired_frames) * speed_factor.
RECURSIVE PreviewLoop(_, _, _, _, _, _)
PreviewLoop(j, count, i, start_frame, total_frames, desired_frames) ==
    LET idx == start_frame + (j * total_frames * call.speed) \div (desired_frames * 100)
    IN
    IF ~(j * total_frames * call.speed < total_frames * desired_frames * 100
         /\ count < desired_frames)
        THEN [frames |-> <<>>, raised |-> FALSE]
    ELSE IF idx \in env.bad \/ idx >= SrcFrames
        THEN PreviewLoop(j + 1, count, i, start_frame, total_frames, desired_frames)
    ELSE LET processed == _apply_processing(DecodedShape(idx), call.dimensions,
                                            call.crop_rect)
             rest == PreviewLoop(j + 1, count + 1, i, start_frame, total_frames,
                                 desired_frames)
         IN IF processed = Raises THEN [frames |-> <<>>, raised |-> TRUE]
            ELSE [frames |-> <<[seg |-> i, f |-> j, src |-> idx, shape |-> processed]>>
                             \o rest.frames,
                  raised |-> rest.raised]

\* The frames generate_preview takes from the range (s, e), its i-th.
PreviewRange(i, s, e) ==
    LET start_frame == (s * SrcFps) \div TicksPerSecond
        end_frame == (e * SrcFps) \div TicksPerSecond
        desired_frames == ((e - s) * call.fps) \div TicksPerSecond
    IN IF desired_frames > 0
       THEN PreviewLoop(0, 0, i, start_frame, end_frame - start_frame, desired_frames)
       ELSE [frames |-> <<>>, raised |-> FALSE]

\* generate_preview's loop over the segments, from the i-th on.
RECURSIVE PreviewSegments(_)
PreviewSegments(i) ==
    IF i > Len(call.segments) THEN [frames |-> <<>>, raised |-> FALSE]
    ELSE LET here == PreviewRange(i - 1, call.segments[i][1], call.segments[i][2]) IN
         IF here.raised THEN here
         ELSE LET rest == PreviewSegments(i + 1) IN
              [frames |-> here.frames \o rest.frames, raised |-> rest.raised]

\* VideoProcessor.generate_preview: returns [] without an open source, else
\* (preview_frames, adjusted_fps), unless _apply_processing raises.
GeneratePreview ==
    /\ pc = "call" /\ call.op = "generate_preview"
    /\ LET got == IF call.segments # <<>> THEN PreviewSegments(1)
                  ELSE PreviewRange(0, call.start_time, call.end_time)
       IN preview' =
            IF ~env.cap_open THEN [returned |-> "list", frames |-> <<>>, fps_x100 |-> 0]
            ELSE IF got.raised THEN [returned |-> "raised", frames |-> <<>>, fps_x100 |-> 0]
            ELSE [returned |-> "tuple", frames |-> got.frames,
                  fps_x100 |-> call.fps * call.speed]
    /\ pc' = "done"
    /\ UNCHANGED <<appVars, tlVars, plan, env, call, loc, progress, written, result>>

NextEngine ==
    \/ CreateGifEnter
    \/ SegmentBegin
    \/ SegmentFrame
    \/ SegmentEnd
    \/ Assemble
    \/ Write
    \/ SingleSetup
    \/ SpeedFrame
    \/ SpeedEnd
    \/ SpeedWrite
    \/ Standard
    \/ Method1
    \/ Method2
    \/ Method3Frame
    \/ Method3End
    \/ Finish
    \/ GeneratePreview

SpecEngine == InitEngine /\ [][NextEngine]_vars


\* ----------------------------------------------- cancelling an export
\* The user asks to cancel while create_gif runs; seg is the segment in
\* progress. create_gif takes no cancellation flag and reads none.
RequestCancel ==
    /\ call.op = "create_gif"
    /\ pc \notin {"idle", "call", "done"}
    /\ ~cancel.requested
    /\ cancel' = [requested |-> TRUE, seg |-> loc.i]
    /\ UNCHANGED <<fps_spin, build, pw, ldVars, tlVars, plan, engVars, sessVars, ap>>

NextCancel == NextEngine \/ RequestCancel

SpecCancel == InitEngine /\ [][NextCancel]_vars

\* ------------------------------------------------------ loading a source
\* Most decoder handles created in a run.
MaxHandles == 4
\* The paths the user opens; a path ending in .gif takes the clip branch.
Paths == {"a.mp4", "b.gif"}
IsGif(path) == path = "b.gif"
\* What the decoder finds at a path: whether cv2.VideoCapture opens it,
\* whether VideoFileClip opens it, and the fps and frame count it reports.
Files == [gif : BOOLEAN, opens : BOOLEAN, clip_ok : BOOLEAN,
          fps : {0, SrcFps}, frames : {0, SrcFrames}]

\* A handle that holds a decoder: successfully opened and not released.
Open(h) == handles[h].opened /\ ~handles[h].released
OpenHandles == {h \in 1..Len(handles) : Open(h)}

\* The handles with handle h released: cap.release(), clip.close(), or the
\* object's finalizer when its last reference is dropped.
Released(hs, h) == [hs EXCEPT ![h].released = TRUE]

\* VideoProcessor.__init__
InitLoader ==
    /\ TimelineIdle
    /\ EngineIdle
    /\ LoaderIdle
    /\ MainWindowIdle
    /\ start_time = 0 /\ end_time = 0 /\ excluded_segments = <<>>
    /\ plan = NoPlan

\* load_video(video_path) is entered
LoadVideoBegin(path, file) ==
    /\ ld.pc = "idle"
    /\ Len(handles) + 2 <= MaxHandles
    /\ file.gif = IsGif(path)
    /\ ld' = [pc |-> IF file.gif THEN "clip" ELSE "open", path |-> <<path>>,
              file |-> file, new |-> None, ret |-> None]
    /\ lookup' = NoLookup
    /\ UNCHANGED <<vp, handles, tlVars, plan, engVars, sessVars, ap, mwVars>>

\* return v from load_video
LoadReturn(v) == ld' = [ld EXCEPT !.pc = "idle", !.ret = <<v>>]

\* clip = VideoFileClip(video_path): the clip holds a decoder of its own,
\* or the constructor raises and load_video returns False.
LoadClipOpen ==
    /\ ld.pc = "clip"
    /\ IF ld.file.clip_ok
       THEN /\ handles' = Append(handles, [kind |-> "clip", opened |-> TRUE,
                                           released |-> FALSE])
            /\ ld' = [ld EXCEPT !.pc = "clip_read", !.new = <<Len(handles) + 1>>]
       ELSE LoadReturn(FALSE) /\ UNCHANGED handles
    /\ UNCHANGED <<vp, lookup, tlVars, plan, engVars, sessVars, ap, mwVars>>

\* The metadata taken from the clip, then clip.close().
LoadClipRead ==
    /\ ld.pc = "clip_read"
    /\ vp' = [vp EXCEPT !.fps = ld.file.fps,
                        !.frame_count = ld.file.frames,
                        !.duration = IF ld.file.fps > 0
                                     THEN (ld.file.frames * TicksPerSecond) \div ld.file.fps
                                     ELSE 0]
    /\ handles' = Released(handles, ld.new[1])
    /\ ld' = [ld EXCEPT !.pc = "open", !.new = None]
    /\ UNCHANGED <<lookup, tlVars, plan, engVars, sessVars, ap, mwVars>>

\* cv2.VideoCapture(video_path), the right-hand side of the assignment to
\* self.cap: the new capture exists while self.cap still holds the old one.
LoadOpen ==
    /\ ld.pc = "open"
    /\ handles' = Append(handles, [kind |-> "cap", opened |-> ld.file.opens,
                                   released |-> FALSE])
    /\ ld' = [ld EXCEPT !.pc = "install", !.new = <<Len(handles) + 1>>]
    /\ UNCHANGED <<vp, lookup, tlVars, plan, engVars, sessVars, ap, mwVars>>

\* self.cap = <the new capture>, and the rest of load_video. The old capture
\* loses its last reference here and its finalizer releases it.
LoadInstall ==
    /\ ld.pc = "install"
    /\ handles' = IF vp.cap # None THEN Released(handles, vp.cap[1]) ELSE handles
    /\ IF ~ld.file.opens
       THEN /\ vp' = [vp EXCEPT !.cap = ld.new]
            /\ LoadReturn(FALSE)
       ELSE /\ vp' = IF ld.file.gif
                     THEN [vp EXCEPT !.cap = ld.new, !.video_path = ld.path]
                     ELSE [cap |-> ld.new, video_path |-> ld.path,
                           fps |-> ld.file.fps, frame_count |-> ld.file.frames,
                           duration |-> IF ld.file.fps > 0
                                        THEN (ld.file.frames * TicksPerSecond) \div ld.file.fps
                                        ELSE 0]
            /\ LoadReturn(TRUE)
    /\ UNCHANGED <<lookup, tlVars, plan, engVars, sessVars, ap, mwVars>>

\* VideoProcessor.__del__
ProcessorDel ==
    /\ ld.pc = "idle"
    /\ handles' = IF vp.cap # None THEN Released(handles, vp.cap[1]) ELSE handles
    /\ ld' = [ld EXCEPT !.pc = "deleted"]
    /\ UNCHANGED <<vp, lookup, tlVars, plan, engVars, sessVars, ap, mwVars>>

\* self.cap and self.cap.isOpened()
CapIsOpened == vp.cap # None /\ Open(vp.cap[1])

\* VideoProcessor.get_frame(frame_number): the index of the frame read, or
\* None when there is no open capture or the read fails.
get_frame(frame_number) ==
    IF ~CapIsOpened THEN None
    ELSE IF frame_number < vp.frame_count THEN <<frame_number>> ELSE None

\* Times (ticks) a frame is asked for.
LookupTimes == 0..((2 * TicksPerSecond) \div SrcFps)

\* VideoProcessor.get_frame_at_time(time_seconds), time_seconds = t ticks
get_frame_at_time(t) ==
    /\ ld.pc = "idle"
    /\ lookup' = [t |-> t, asked |-> TRUE,
                  frame |-> IF ~CapIsOpened THEN None
                            ELSE get_frame((t * vp.fps) \div TicksPerSecond)]
    /\ UNCHANGED <<vp, handles, ld, tlVars, plan, engVars, sessVars, ap, mwVars>>

NextLoader ==
    \/ \E path \in Paths, file \in Files : LoadVideoBegin(path, file)
    \/ LoadClipOpen
    \/ LoadClipRead
    \/ LoadOpen
    \/ LoadInstall
    \/ ProcessorDel
    \/ \E t \in LookupTimes : get_frame_at_time(t)

SpecLoader == InitLoader /\ [][NextLoader]_vars

\* ------------------------------------------- building a preview (main.py)
\* Input values of the events handled while a preview is requested.
BuildDurations == {2 * StripWidth}
BuildSliderStops == {0, 400, 1000}
BuildMouseXs == {1, 2, 4}
BuildFps == {1, 2}

\* MainWindow.__init__ and TimelineWidget.__init__
InitBuild ==
    /\ TimelineIdle
    /\ EngineIdle
    /\ LoaderIdle
    /\ MainWindowIdle
    /\ start_time = 0 /\ end_time = 0 /\ excluded_segments = <<>>
    /\ plan = NoPlan

\* The user changes the fps spin box.
fps_spin_changed(v) ==
    /\ v # fps_spin
    /\ fps_spin' = v
    /\ UNCHANGED <<build, cancel, pw, tlVars, plan, engVars, sessVars, ap, ldVars>>

\* MainWindow.generate_preview up to QApplication.processEvents(): the
\* widgets' values and the trim values are read into locals.
MainGeneratePreviewRead ==
    /\ build.pc \in {"idle", "done"}
    /\ widget_enabled
    /\ build' = [pc |-> "events",
                 at_start |-> [start_time |-> start_time, end_time |-> end_time,
                               fps |-> fps_spin,
                               excluded_segments |-> excluded_segments],
                 read |-> [start_time |-> start_time, end_time |-> end_time,
                           fps |-> fps_spin, segments |-> None],
                 passed |-> NoArgs, called |-> FALSE]
    /\ UNCHANGED <<fps_spin, cancel, pw, tlVars, plan, engVars, sessVars, ap, ldVars>>

\* MainWindow.generate_preview after processEvents() has returned.
\* self.excluded_segments is the list the timeline last emitted, the
\* widget's own; get_effective_segments() reads the widget's fields.
MainGeneratePreviewCall ==
    /\ build.pc = "events"
    /\ LET effective_segments ==
               get_effective_segments(start_time, end_time, excluded_segments)
       IN build' = [build EXCEPT
                 !.pc = "done",
                 !.called = (excluded_segments = <<>> \/ effective_segments # <<>>),
                 !.passed = [build.read EXCEPT
                                !.segments = IF excluded_segments # <<>>
                                             THEN <<effective_segments>> ELSE None]]
    /\ UNCHANGED <<fps_spin, cancel, pw, tlVars, plan, engVars, sessVars, ap, ldVars>>

\* The events the application handles: in its event loop, and in
\* processEvents() while a preview is requested.
NextBuild ==
    \/ \E d \in BuildDurations : setup_timeline(d)
    \/ \E v \in BuildSliderStops : update_start_trim(v)
    \/ \E v \in BuildSliderStops : update_end_trim(v)
    \/ start_segment_selection
    \/ \E x \in BuildMouseXs : mousePressEvent(x)
    \/ \E x \in BuildMouseXs, confirm \in BOOLEAN : mouseReleaseEvent(x, confirm)
    \/ reset_excluded_segments
    \/ keyPressEvent_Escape
    \/ \E v \in BuildFps : fps_spin_changed(v)
    \/ MainGeneratePreviewRead
    \/ MainGeneratePreviewCall

SpecBuild == InitBuild /\ [][NextBuild]_vars


\* --------------------------------------- the crop rectangle (PreviewWidget)
\* Sizes are <<width, height>> in pixels; rectangles are <<x, y, w, h>>.
\* The frames of the source shown in the widget, and the label they are
\* shown in.
ShownSourceSize == <<8, 4>>
LabelSize == <<8, 8>>
\* Output dimensions the previews are generated with.
PreviewSizes == {<<8, 4>>, <<4, 2>>}
\* Mouse positions, in the label's coordinates.
CropPoints == {<<0, 2>>, <<4, 4>>, <<8, 6>>}
WholeSource == <<0, 0, ShownSourceSize[1], ShownSourceSize[2]>>

\* A displayed image: its pixel size and the region of the source it shows.
SourcePixmap == [w |-> ShownSourceSize[1], h |-> ShownSourceSize[2],
                 shows |-> WholeSource]

\* QPixmap.scaled(label_size, Qt.KeepAspectRatio): the size of the result.
ScaledSize(pixmap) ==
    LET rw == (LabelSize[2] * pixmap.w) \div pixmap.h IN
    IF rw <= LabelSize[1] THEN <<rw, LabelSize[2]>>
    ELSE <<LabelSize[1], (LabelSize[1] * pixmap.h) \div pixmap.w>>

\* max(0, min(pos - offset, size)) with offset = (label - size) / 2, kept
\* doubled so that a half-pixel offset stays whole.
Clamp2(pos, label, size) == Max(0, Min(2 * pos - (label - size), 2 * size))

\* The rectangle _update_display draws on the scaled image:
\* crop_x, crop_y, crop_w, crop_h.
DrawnRect(p) ==
    LET size == ScaledSize(p.current_pixmap[1])
        sx == Clamp2(p.crop_start[1][1], LabelSize[1], size[1])
        sy == Clamp2(p.crop_start[1][2], LabelSize[2], size[2])
        ex == Clamp2(p.crop_end[1][1], LabelSize[1], size[1])
        ey == Clamp2(p.crop_end[1][2], LabelSize[2], size[2])
    IN <<Min(sx, ex) \div 2, Min(sy, ey) \div 2,
         (Max(sx, ex) - Min(sx, ex)) \div 2, (Max(sy, ey) - Min(sy, ey)) \div 2>>

\* PreviewWidget._update_display on the widget p: in crop mode with both
\* corners set it stores crop_rect, the drawn rectangle times
\* current_pixmap's size over the scaled size. crop_on keeps the image and
\* the drawn rectangle the stored value was computed from.
_update_display(p) ==
    IF p.current_pixmap = None \/ ~p.crop_mode
       \/ p.crop_start = None \/ p.crop_end = None
    THEN p
    ELSE LET pixmap == p.current_pixmap[1]
             size == ScaledSize(pixmap)
             drawn == DrawnRect(p)
         IN [p EXCEPT !.crop_rect = << <<(drawn[1] * pixmap.w) \div size[1],
                                         (drawn[2] * pixmap.h) \div size[2],
                                         (drawn[3] * pixmap.w) \div size[1],
                                         (drawn[4] * pixmap.h) \div size[2]>> >>,
                     !.crop_on = <<[pixmap |-> pixmap, drawn |-> drawn]>>]

\* enable_crop_mode on the widget p
enable_crop_mode(p) ==
    [p EXCEPT !.crop_mode = TRUE, !.crop_start = None, !.crop_end = None]

CropUnchanged == UNCHANGED <<fps_spin, build, cancel, ldVars, tlVars, plan, engVars, sessVars, ap>>

\* MainWindow and PreviewWidget as constructed
InitCrop ==
    /\ TimelineIdle
    /\ EngineIdle
    /\ LoaderIdle
    /\ MainWindowIdle
    /\ start_time = 0 /\ end_time = 0 /\ excluded_segments = <<>>
    /\ plan = NoPlan

\* display_frame(frame) with a frame of the source: after a load and after
\* a trim change
display_frame ==
    /\ pw' = _update_display([pw EXCEPT !.playing = FALSE,
                                        !.current_pixmap = <<SourcePixmap>>])
    /\ CropUnchanged

\* MainWindow.on_crop_enabled(state), a source being loaded
on_crop_enabled(state) ==
    /\ pw.current_pixmap # None
    /\ state # pw.enable_crop
    /\ pw' = IF state THEN enable_crop_mode([pw EXCEPT !.enable_crop = TRUE])
             ELSE _update_display([pw EXCEPT !.enable_crop = FALSE,
                                             !.crop_mode = FALSE])
    /\ CropUnchanged

\* MainWindow.on_set_crop; the button is enabled with the checkbox
on_set_crop ==
    /\ pw.current_pixmap # None
    /\ pw.enable_crop
    /\ pw' = enable_crop_mode(pw)
    /\ CropUnchanged

\* PreviewWidget.mousePressEvent at pos
PreviewMousePress(pos) ==
    /\ pw.crop_mode /\ pw.current_pixmap # None
    /\ pw' = _update_display([pw EXCEPT !.crop_start = <<pos>>, !.crop_end = None])
    /\ CropUnchanged

\* PreviewWidget.mouseMoveEvent and mouseReleaseEvent at pos
PreviewMouseMoveOrRelease(pos) ==
    /\ pw.crop_mode /\ pw.crop_start # None
    /\ pw' = _update_display([pw EXCEPT !.crop_end = <<pos>>])
    /\ CropUnchanged

\* frame[y:y+h, x:x+w] of a source frame: the region of the source left.
CropRegion(r) ==
    LET x0 == Min(r[1], ShownSourceSize[1])
        y0 == Min(r[2], ShownSourceSize[2])
    IN <<x0, y0, Min(r[1] + r[3], ShownSourceSize[1]) - x0,
         Min(r[2] + r[4], ShownSourceSize[2]) - y0>>

\* MainWindow.generate_preview with output dimensions dims: crop_rect is
\* the widget's when the checkbox is checked; the frames returned are
\* played. An empty crop makes cv2.resize raise and nothing is played.
CropGeneratePreview(dims) ==
    /\ pw.current_pixmap # None
    /\ LET crop_rect == IF pw.enable_crop THEN pw.crop_rect ELSE None
           region == IF crop_rect = None THEN WholeSource
                     ELSE CropRegion(crop_rect[1])
       IN IF region[3] = 0 \/ region[4] = 0
          THEN UNCHANGED pw
          ELSE pw' = [pw EXCEPT !.playing = TRUE,
                                !.preview_frames =
                                    <<[w |-> dims[1], h |-> dims[2], shows |-> region]>>]
    /\ CropUnchanged

\* show_next_preview_frame, on the preview timer
show_next_preview_frame ==
    /\ pw.playing /\ pw.preview_frames # None
    /\ pw' = _update_display([pw EXCEPT !.current_pixmap = pw.preview_frames])
    /\ CropUnchanged

NextCrop ==
    \/ display_frame
    \/ \E state \in BOOLEAN : on_crop_enabled(state)
    \/ on_set_crop
    \/ \E pos \in CropPoints : PreviewMousePress(pos)
    \/ \E pos \in CropPoints : PreviewMouseMoveOrRelease(pos)
    \/ \E dims \in PreviewSizes : CropGeneratePreview(dims)
    \/ show_next_preview_frame

SpecCrop == InitCrop /\ [][NextCrop]_vars

\* ---------------------------------------------------------- the claims
\* floor(d * fps / speed_factor) for d in ticks and the factor in percent:
\* the largest n with n * speed_factor <= d * fps.
FloorFrames(d, fps, speed) ==
    CHOOSE n \in 0..(d * fps * 100) :
        /\ n * TicksPerSecond * speed <= d * fps * 100
        /\ (n + 1) * TicksPerSecond * speed > d * fps * 100

Segmented == call.op = "create_gif" /\ env.cap_open /\ env.path_exists
             /\ call.segments # <<>>

\* (C3) In the segmented path of create_gif, a segment of duration d gets
\* frame_count = floor(d * fps / speed_factor) sample offsets, the f-th
\* being f * (d / frame_count), all in [0, d) and strictly increasing; when
\* every sample decodes, the segment contributes frame_count frames in
\* that order.
C3_SamplePlan ==
    Segmented =>
        \A j \in 0..(loc.i - 1) :
            LET seg == call.segments[j + 1]
                d == seg[2] - seg[1]
                fc == FloorFrames(d, call.fps, call.speed)
                plan_j == SelectSeq(loc.samples, LAMBDA x : x.seg = j)
                out_j == SelectSeq(loc.all_frames, LAMBDA x : x.seg = j)
            IN /\ Len(plan_j) = fc
               /\ \A k \in 1..Len(plan_j) :
                     /\ plan_j[k].f = k - 1
                     /\ plan_j[k].t[1] * fc = (k - 1) * d * plan_j[k].t[2]
                     /\ 0 <= plan_j[k].t[1] /\ plan_j[k].t[1] < d * plan_j[k].t[2]
               /\ \A k \in 1..(Len(plan_j) - 1) :
                     plan_j[k].t[1] * plan_j[k + 1].t[2] < plan_j[k + 1].t[1] * plan_j[k].t[2]
               /\ (\A k \in 1..Len(plan_j) : plan_j[k].ok) =>
                     /\ Len(out_j) = fc
                     /\ \A k \in 1..Len(out_j) : out_j[k].f = k - 1

\* sum over the ranges of floor(duration * fps / speed_factor)
RECURSIVE SumFloorFrames(_)
SumFloorFrames(ranges) ==
    IF ranges = <<>> THEN 0
    ELSE FloorFrames(Head(ranges)[2] - Head(ranges)[1], call.fps, call.speed)
         + SumFloorFrames(Tail(ranges))

\* (C4) When every sampled frame decodes, generate_preview returns the sum
\* over the segments of floor(segment_duration * fps / speed_factor) frames
\* (for a single range, floor((end_time - start_time) * fps / speed_factor)).
C4_PreviewFrameCount ==
    (preview.returned = "tuple" /\ env.bad = {}) =>
        Len(preview.frames) =
            SumFloorFrames(IF call.segments # <<>> THEN call.segments
                           ELSE << <<call.start_time, call.end_time>> >>)

\* (C5) The frame rate handed to the player or encoder is fps * speed_factor
\* when a single trimmed range is previewed or exported, and the plain fps
\* when a multi-segment result is exported.
C5_FrameRate ==
    /\ (preview.returned = "tuple" /\ call.segments = <<>>) =>
           preview.fps_x100 = call.fps * call.speed
    /\ \A k \in 1..Len(written) :
           written[k].fps_x100 = IF call.segments = <<>> THEN call.fps * call.speed
                                 ELSE call.fps * 100

\* (C6) Across one call of create_gif the values passed to
\* progress_callback are non-decreasing.
C6_ProgressNonDecreasing ==
    \A k \in 1..(Len(progress) - 1) : progress[k] <= progress[k + 1]

Reported(v) == \E k \in 1..Len(progress) : progress[k] = v

\* (C7) create_gif reports 100 if and only if it returns True, 100 is the
\* last value reported, it is reported only after the encoder write has
\* completed, and a call that fails before any segment is processed (no
\* open source, missing file) never calls the callback.
C7_HundredIffSuccess ==
    /\ (pc = "done" /\ call.op = "create_gif") => (Reported(100) <=> result = <<TRUE>>)
    /\ \A k \in 1..Len(progress) : progress[k] = 100 => k = Len(progress)
    /\ Reported(100) => written # <<>>
    /\ (~env.cap_open \/ ~env.path_exists) => progress = <<>>

\* (C8) When the sampling phase of an export yields no frame (every segment
\* with frame_count <= 0, or every sample failing to decode) the export
\* reports failure and no encoder write is performed.
C8_NoFramesNoWrite ==
    (/\ pc = "done" /\ call.op = "create_gif" /\ env.cap_open /\ env.path_exists
     /\ (call.segments # <<>> \/ call.speed # 100)
     /\ \A k \in 1..Len(loc.samples) : ~loc.samples[k].ok)
        => (result = <<FALSE>> /\ written = <<>>)

Uniform(frames) == \A k \in 1..Len(frames) : frames[k].shape = frames[1].shape

C10_ExcludedSortedAndSeparated ==
    \A i \in 1..(Len(excluded_segments) - 1) :
        /\ excluded_segments[i][1] < excluded_segments[i + 1][1]
        /\ excluded_segments[i][2] < excluded_segments[i + 1][1]

\* Two separate exclusions are held, the second added by a confirmed selection.
C10_Witness ==
    /\ Len(excluded_segments) = 2
    /\ ~selecting_exclusion

\* (C1) For a primary range and a merged excluded set, get_effective_segments
\* returns exactly the primary range minus the union of the excluded ranges:
\* no returned segment covers time of an excluded range, all time of the
\* primary range outside the excluded ranges is in a returned segment, an
\* excluded set that is empty or wholly outside the primary range gives
\* [primary], and an excluded range covering the primary range gives [].
C1_EffectiveIsPrimaryMinusExcluded ==
    plan.done =>
        LET primary == <<start_time, end_time>>
            m == plan.merged
            out == plan.of_merged
        IN /\ \A i \in 1..Len(out) : Cells(out[i]) \cap Covered(m) = {}
           /\ Cells(primary) \ Covered(m) \subseteq Covered(out)
           /\ Covered(out) \subseteq Cells(primary)
           /\ (\A j \in 1..Len(m) : m[j][2] <= start_time \/ m[j][1] >= end_time)
                  => out = <<primary>>
           /\ (\E j \in 1..Len(m) : m[j][1] <= start_time /\ m[j][2] >= end_time)
                  => out = <<>>

\* Two merged exclusions strictly inside the primary range leave three segments.
C1_Witness ==
    /\ plan.done
    /\ Len(plan.merged) = 2
    /\ Len(plan.of_merged) = 3

\* (C2) get_effective_segments gives the same segments on a raw list of
\* excluded ranges (overlapping, nested, touching, duplicate) as on
\* merge_overlapping_segments of that list.
C2_RawEqualsMerged ==
    plan.done => plan.raw = plan.of_merged

\* A step that opens a new source or sets a new primary range.
NewSourceOrRange ==
    \/ \E d \in Durations : setup_timeline(d)
    \/ \E v \in SliderStops : update_start_trim(v)
    \/ \E v \in SliderStops : update_end_trim(v)

\* (C11) The excluded segments are emptied whenever a new source is opened
\* (setup_timeline) and whenever a new primary range is set
\* (update_start_trim, update_end_trim); otherwise only an explicit add or
\* reset changes them.
C11_EmptiedOnNewSourceOrRange ==
    [][/\ NewSourceOrRange => excluded_segments' = <<>>
       /\ excluded_segments' # excluded_segments =>
             \/ NewSourceOrRange
             \/ reset_excluded_segments
             \/ \E x \in MouseXs : mouseReleaseEvent(x, TRUE)]_vars

\* (C12) load_video returns False whenever the path cannot be opened or the
\* decoder reports a frame count of zero or an fps of zero; it never
\* returns True with fps = 0 or frame_count = 0.
C12_LoadFailsOnUnusableSource ==
    ld.ret # None =>
        /\ ld.ret = <<TRUE>> => (vp.fps > 0 /\ vp.frame_count > 0)
        /\ (\/ ~ld.file.opens
            \/ ld.file.gif /\ ~ld.file.clip_ok
            \/ ld.file.fps = 0
            \/ ld.file.frames = 0) => ld.ret = <<FALSE>>

\* (C13) A load_video call made while a source is open releases the handle
\* held so far before the new one is installed; when load_video is not
\* running, no handle opened by the processor is both unreleased and
\* unreferenced; at most one decoder handle is open at any time.
C13_OneHandleAtATime ==
    /\ (ld.pc = "install" /\ vp.cap # None) => ~Open(vp.cap[1])
    /\ ld.pc \in {"idle", "deleted"} =>
           \A h \in OpenHandles : vp.cap = <<h>>
    /\ Cardinality(OpenHandles) <= 1

\* Python's round(n / d) for n >= 0, d > 0: to the nearest integer, a tie
\* to the even one.
Round(n, d) ==
    LET q == n \div d
        r == n % d
    IN IF 2 * r < d THEN q
       ELSE IF 2 * r > d THEN q + 1
       ELSE IF q % 2 = 0 THEN q ELSE q + 1

\* (C17) With a source open, get_frame_at_time(t) returns the frame with
\* index round(t * fps), the same frame as get_frame(round(t * fps)).
C17_FrameAtRoundedIndex ==
    (lookup.asked /\ CapIsOpened /\ vp.fps > 0) =>
        lookup.frame = get_frame(Round(lookup.t * vp.fps, TicksPerSecond))

\* (C14) Every value one preview build uses (primary range, effective
\* segments, fps) is the value the UI had when MainWindow.generate_preview
\* started: no event handled before VideoProcessor.generate_preview is
\* called changes what the build is given.
C14_BuildUsesOneSnapshot ==
    build.pc = "done" =>
        /\ build.passed.start_time = build.at_start.start_time
        /\ build.passed.end_time = build.at_start.end_time
        /\ build.passed.fps = build.at_start.fps
        /\ build.passed.segments =
              IF build.at_start.excluded_segments # <<>>
              THEN <<get_effective_segments(build.at_start.start_time,
                                            build.at_start.end_time,
                                            build.at_start.excluded_segments)>>
              ELSE None

\* (C15) Once cancellation has been requested during an export, no segment
\* after the one in progress is sampled, no encoder write is performed and
\* progress 100 is not reported.
C15_CancelStopsExport ==
    [][cancel.requested =>
          /\ written' = written
          /\ progress' # progress => progress'[Len(progress')] # 100
          /\ loc'.samples # loc.samples =>
                 loc'.samples[Len(loc'.samples)].seg = cancel.seg]_vars

\* The drawn rectangle in pixel coordinates of the source: the part of the
\* source under it, given the region of the source the image shows.
InSourcePixels(on) ==
    LET size == ScaledSize(on.pixmap)
    IN <<on.pixmap.shows[1] + (on.drawn[1] * on.pixmap.shows[3]) \div size[1],
         on.pixmap.shows[2] + (on.drawn[2] * on.pixmap.shows[4]) \div size[2],
         (on.drawn[3] * on.pixmap.shows[3]) \div size[1],
         (on.drawn[4] * on.pixmap.shows[4]) \div size[2]>>

\* (C16) The crop rectangle the preview widget stores (and MainWindow hands
\* to the engine) is in pixel coordinates of the loaded source, also when
\* it is drawn or redrawn while a preview frame is the displayed image.
C16_CropInSourcePixels ==
    pw.crop_rect # None => pw.crop_rect = <<InSourcePixels(pw.crop_on[1])>>

\* The frames of segment i among frames.
OfSegment(frames, i) == SelectSeq(frames, LAMBDA x : x.seg = i)

\* The ranges a preview is generated from.
PreviewRanges ==
    IF call.segments # <<>> THEN call.segments
    ELSE << <<call.start_time, call.end_time>> >>

\* (C18) For any speed factor > 0 the frames sampled for a segment span the
\* segment: consecutive sample positions are evenly spaced and the last one
\* is no more than one sampling step before the segment's end, in
\* create_gif (segmented path) and in generate_preview.
C18_SamplesSpanSegment ==
    /\ (Segmented /\ env.bad = {}) =>
          \A j \in 0..(loc.i - 1) :
              LET seg == call.segments[j + 1]
                  d == seg[2] - seg[1]
                  t == [k \in 1..Len(OfSegment(loc.samples, j)) |->
                           OfSegment(loc.samples, j)[k].t]
                  n == Len(OfSegment(loc.samples, j))
              IN n >= 2 =>
                   /\ \A k \in 1..n : t[k][1] * t[2][2] = (k - 1) * t[2][1] * t[k][2]
                   /\ n * t[2][1] >= d * t[2][2]
    /\ (preview.returned = "tuple" /\ env.bad = {}) =>
          \A i \in 1..Len(PreviewRanges) :
              LET s == PreviewRanges[i][1]
                  e == PreviewRanges[i][2]
                  total_frames == (e * SrcFps) \div TicksPerSecond
                                  - (s * SrcFps) \div TicksPerSecond
                  desired_frames == ((e - s) * call.fps) \div TicksPerSecond
                  taken == OfSegment(preview.frames, i - 1)
              IN desired_frames > 0 =>
                   /\ \A k \in 1..Len(taken) : taken[k].f = k - 1
                   /\ Len(taken) * total_frames * call.speed
                          >= total_frames * desired_frames * 100

\* Ordered by start, pairwise disjoint, each of positive duration and each
\* inside (s, e).
WellFormed(segs, s, e) ==
    /\ \A k \in 1..Len(segs) :
          /\ segs[k][1] < segs[k][2]
          /\ s <= segs[k][1] /\ segs[k][2] <= e
    /\ \A k \in 1..(Len(segs) - 1) : segs[k][2] <= segs[k + 1][1]

\* (C19) For every primary range and every list of excluded ranges, merged
\* or not, get_effective_segments returns segments ordered by start,
\* pairwise disjoint, each of positive duration and inside the primary range.
C19_EffectiveWellFormed ==
    plan.done =>
        /\ WellFormed(plan.raw, start_time, end_time)
        /\ WellFormed(plan.of_merged, start_time, end_time)

\* An unmerged list with a nested range, for which two segments are kept.
C19_Witness ==
    /\ plan.done
    /\ Len(plan.raw) = 2
    /\ plan.raw # plan.of_merged

\* (C20) merge_overlapping_segments is idempotent, and the merged list
\* covers the same time as the list it was given.
C20_MergeIdempotentSameCover ==
    plan.done =>
        /\ merge_overlapping_segments(plan.merged) = plan.merged
        /\ Covered(plan.merged) = Covered(excluded_segments)

\* Two ranges that overlap, the second ending inside the first, merged
\* into one.
C20_Witness ==
    /\ plan.done
    /\ Len(excluded_segments) = 2
    /\ Len(plan.merged) = 1
    /\ excluded_segments[2][2] < excluded_segments[1][2]
    /\ excluded_segments[2][1] > excluded_segments[1][1]

\* C21: once setup_timeline has run with a positive duration, whatever the
\* start slider and the end slider are moved to, the primary range keeps
\* start_time < end_time.
C21_StartBeforeEnd ==
    (widget_enabled /\ duration > 0) => start_time < end_time

\* A slider was pushed past the other one and the handler put its end Gap
\* away from the other end, at a time no slider position stands for.
C21_Witness ==
    /\ widget_enabled /\ duration > 0
    /\ end_time - start_time = Gap
    /\ start_time * SliderMax # start_slider * duration

\* C28: once setup_timeline has run with a positive duration, whatever the
\* start slider and the end slider are moved to, the primary range stays
\* inside the source: 0 <= start_time and end_time <= duration.
C28_RangeInsideSource ==
    (widget_enabled /\ duration > 0) => (0 <= start_time /\ end_time <= duration)

\* C29: whatever mouse events, confirmations, resets and reloads have
\* happened, every range of excluded_segments lies inside the source and is
\* longer than 0.1 s: 0 <= start < end <= duration and end - start > Gap.
C29_ExcludedInsideSource ==
    \A k \in 1..Len(excluded_segments) :
        LET r == excluded_segments[k] IN
        /\ 0 <= r[1] /\ r[1] < r[2] /\ r[2] <= duration
        /\ r[2] - r[1] > Gap

\* C30: a step that puts a range into excluded_segments is a mouse release
\* inside a selection session, after an accepted press, and it adds the one
\* range between the press and the release, longer than 0.1 s, and ends the
\* session; a session that ends leaves selecting_exclusion False,
\* temp_exclusion_start None and the sliders and the trim button enabled;
\* outside a session the excluded set can only be emptied, and a mouse press
\* or release outside a session changes neither the excluded set nor the
\* primary range.
C30_OneRangePerSession ==
    [][ /\ (excluded_segments' # excluded_segments /\ excluded_segments' # <<>>) =>
              /\ selecting_exclusion /\ temp_exclusion_start # None
              /\ ~selecting_exclusion'
              /\ \E p \in 0..duration :
                    LET s == Min(temp_exclusion_start[1], p)
                        e == Max(temp_exclusion_start[1], p)
                    IN /\ e - s > Gap
                       /\ excluded_segments' =
                             merge_overlapping_segments(Append(excluded_segments, <<s, e>>))
        /\ (selecting_exclusion /\ ~selecting_exclusion') =>
              (temp_exclusion_start' = None /\ controls_enabled')
        /\ (selecting_exclusion' /\ ~selecting_exclusion) =>
              (temp_exclusion_start' = None /\ ~controls_enabled')
        /\ ~selecting_exclusion =>
              /\ temp_exclusion_start = None /\ controls_enabled
              /\ excluded_segments' \in {excluded_segments, <<>>}
        /\ \A x \in MouseXs :
              (/\ ~selecting_exclusion
               /\ \/ mousePressEvent(x)
                  \/ \E confirm \in BOOLEAN : mouseReleaseEvent(x, confirm)) =>
                 UNCHANGED <<excluded_segments, start_time, end_time>>
      ]_vars

\* A session has ended with a range longer than Gap added to a set that
\* already held one.
C30_Witness ==
    /\ ~selecting_exclusion /\ temp_exclusion_start = None /\ controls_enabled
    /\ Len(excluded_segments) = 2

\* ----------------------------------- _apply_processing on its own
\* Frames up to 3 x 3 pixels, the output sizes of the engine's calls, and
\* crop rectangles (x, y, w, h) inside, across and outside such frames.
ProcessShapes == {<<h, w, 3>> : h \in 1..3, w \in 1..3}
ProcessCrops ==
    {None} \cup {<< <<x, y, w, h>> >> : x \in 0..3, y \in 0..3, w \in 0..2, h \in 0..2}

\* A frame, the dimensions and a crop rectangle are chosen.
InitProcess ==
    /\ TimelineIdle
    /\ EngineIdle
    /\ LoaderIdle
    /\ fps_spin = 1 /\ build = NoBuild /\ cancel = NoCancel /\ pw = NoPreviewWidget
    /\ current_file = None /\ speed_slider = 100 /\ played = 0 /\ saved = <<>>
    /\ start_time = 0 /\ end_time = 0 /\ excluded_segments = <<>>
    /\ plan = NoPlan
    /\ ap \in [shape : ProcessShapes, dimensions : DimChoices,
               crop_rect : ProcessCrops, out : {None}]

\* self._apply_processing(frame, dimensions, crop_rect)
ApplyProcessing ==
    /\ ap.out = None
    /\ ap' = [ap EXCEPT !.out = <<_apply_processing(ap.shape, ap.dimensions, ap.crop_rect)>>]
    /\ UNCHANGED <<ldVars, mwVars, sessVars, tlVars, plan, engVars>>

NextProcess == ApplyProcessing

SpecProcess == InitProcess /\ [][NextProcess]_vars


\* ------------------------------- MainWindow: load, preview, save
\* Most files written by save_file.
MaxSaves == 1
\* Positions of the speed slider (percent) and values typed into the fps box.
SpeedStops == {50, 100}
SessionFps == {1, 2}
\* The files opened: a video and a GIF with the source's frames, each one
\* readable by cv2.VideoCapture or not.
SessionFiles ==
    {f \in Files : f.fps = SrcFps /\ f.frames = SrcFrames /\ f.clip_ok = (f.gif \/ f.opens)}

\* VideoProcessor.load_video(path) as one call, the file found at the path
\* being `file`: what it returns and the processor and the handles it
\* leaves. A capture that replaces self.cap releases the old one.
LoadVideoOutcome(path, file) ==
    LET meta == [fps |-> file.fps, frame_count |-> file.frames,
                 duration |-> IF file.fps > 0
                              THEN (file.frames * TicksPerSecond) \div file.fps ELSE 0]
        dropped == IF vp.cap # None THEN Released(handles, vp.cap[1]) ELSE handles
        with_cap(hs) == Append(hs, [kind |-> "cap", opened |-> file.opens,
                                    released |-> FALSE])
    IN IF file.gif
       THEN IF ~file.clip_ok
            THEN [ret |-> FALSE, vp |-> vp, handles |-> handles]
            ELSE LET hs == with_cap(Append(dropped, [kind |-> "clip", opened |-> TRUE,
                                                     released |-> TRUE]))
                     v == [vp EXCEPT !.fps = meta.fps, !.frame_count = meta.frame_count,
                                     !.duration = meta.duration, !.cap = <<Len(hs)>>]
                 IN IF ~file.opens THEN [ret |-> FALSE, vp |-> v, handles |-> hs]
                    ELSE [ret |-> TRUE, vp |-> [v EXCEPT !.video_path = <<path>>],
                          handles |-> hs]
       ELSE LET hs == with_cap(dropped) IN
            IF ~file.opens
            THEN [ret |-> FALSE, vp |-> [vp EXCEPT !.cap = <<Len(hs)>>], handles |-> hs]
            ELSE [ret |-> TRUE,
                  vp |-> [cap |-> <<Len(hs)>>, video_path |-> <<path>>,
                          fps |-> meta.fps, frame_count |-> meta.frame_count,
                          duration |-> meta.duration],
                  handles |-> hs]

\* MainWindow.__init__ with its widgets
InitSession ==
    /\ TimelineIdle
    /\ EngineIdle
    /\ LoaderIdle
    /\ MainWindowIdle
    /\ start_time = 0 /\ end_time = 0 /\ excluded_segments = <<>>
    /\ plan = NoPlan

\* MainWindow.load_video_file(file_path): current_file is set first; after
\* a load that returned True the fps box, the timeline and the shown frame
\* follow the new source. preview_frames is not touched.
load_video_file(path, file) ==
    /\ Len(handles) + 2 <= MaxHandles
    /\ file.gif = IsGif(path)
    /\ LET out == LoadVideoOutcome(path, file) IN
       /\ current_file' = <<path>>
       /\ vp' = out.vp
       /\ handles' = out.handles
       /\ ld' = [pc |-> "idle", path |-> <<path>>, file |-> file, new |-> None,
                 ret |-> <<out.ret>>]
       /\ IF out.ret
          THEN /\ fps_spin' = Max(1, Min(60, out.vp.fps))
               \* setup_timeline(self.video_processor.duration, thumbnails)
               /\ duration' = out.vp.duration
               /\ start_time' = 0
               /\ end_time' = out.vp.duration
               /\ excluded_segments' = <<>>
               /\ start_slider' = 0
               /\ end_slider' = SliderMax
               /\ widget_enabled' = TRUE
               \* display_frame(get_frame(0))
               /\ pw' = IF out.vp.frame_count > 0
                        THEN _update_display([pw EXCEPT !.playing = FALSE,
                                                        !.current_pixmap = <<SourcePixmap>>])
                        ELSE pw
          ELSE UNCHANGED <<fps_spin, duration, start_time, end_time, excluded_segments,
                           start_slider, end_slider, widget_enabled, pw>>
    /\ UNCHANGED <<selecting_exclusion, temp_exclusion_start, controls_enabled,
                   lookup, build, cancel, speed_slider, played, saved, ap, plan, engVars>>

\* The user types v into the fps box.
SessionFpsChanged(v) ==
    /\ v # fps_spin
    /\ fps_spin' = v
    /\ UNCHANGED <<build, cancel, pw, sessVars, ap, ldVars, tlVars, plan, engVars>>

\* The user moves the speed slider to v.
speed_slider_changed(v) ==
    /\ v # speed_slider
    /\ speed_slider' = v
    /\ UNCHANGED <<current_file, played, saved, ap, ldVars, mwVars, tlVars, plan, engVars>>

\* VideoProcessor.generate_preview returns frames for the whole range: the
\* capture is open and the range holds a frame of the source and a frame
\* of the output.
PreviewHasFrames ==
    /\ CapIsOpened
    /\ ((end_time - start_time) * fps_spin) \div TicksPerSecond > 0
    /\ (end_time * vp.fps) \div TicksPerSecond > (start_time * vp.fps) \div TicksPerSecond
    /\ vp.frame_count > 0

\* MainWindow.generate_preview as one call: the frames come from the source
\* the processor holds; play_preview keeps them and starts the timer at
\* adjusted_fps = fps * speed_factor. Without frames nothing is replaced.
MainGeneratePreview ==
    /\ current_file # None
    /\ IF PreviewHasFrames
       THEN /\ pw' = [pw EXCEPT !.playing = TRUE,
                                !.preview_frames =
                                    <<[w |-> ShownSourceSize[1], h |-> ShownSourceSize[2],
                                       shows |-> WholeSource, source |-> vp.video_path]>>]
            /\ played' = fps_spin * speed_slider
       ELSE UNCHANGED <<pw, played>>
    /\ UNCHANGED <<fps_spin, build, cancel, current_file, speed_slider, saved, ap,
                   ldVars, tlVars, plan, engVars>>

\* MainWindow.save_file with a file name chosen: imageio.mimsave writes
\* preview_widget.preview_frames at fps_spin * speed_slider / 100. The write
\* records the source the frames were taken from, the fps the frames were
\* last played at, and the source loaded as the file is written.
save_file ==
    /\ current_file # None
    /\ pw.preview_frames # None
    /\ Len(saved) < MaxSaves
    /\ saved' = Append(saved, [source |-> pw.preview_frames[1].source,
                               fps_x100 |-> fps_spin * speed_slider,
                               played |-> played,
                               loaded |-> vp.video_path])
    /\ UNCHANGED <<current_file, speed_slider, played, ap, ldVars, mwVars, tlVars,
                   plan, engVars>>

NextSession ==
    \/ \E path \in Paths, file \in SessionFiles : load_video_file(path, file)
    \/ \E v \in SessionFps : SessionFpsChanged(v)
    \/ \E v \in SpeedStops : speed_slider_changed(v)
    \/ MainGeneratePreview
    \/ save_file

SpecSession == InitSession /\ [][NextSession]_vars


\* The frame with index k decodes.
Decodes(k) == k \in AllFrames /\ k \notin env.bad

\* Sample f of segment i is among the frames.
Holds(frames, i, f) == \E k \in 1..Len(frames) : frames[k].seg = i /\ frames[k].f = f

\* create_gif's segmented path: every sample point of every segment whose
\* frame decodes is in the frames written.
SegmentedKeepsDecoded(frames) ==
    \A i \in 1..Len(call.segments) :
        LET clip == Subclip(call.segments[i][1], call.segments[i][2], TRUE)
            frame_count == FrameCount(clip.duration, call.fps, call.speed)
        IN \A f \in 0..(frame_count - 1) :
              LET t == FrameTime(f, TimeStep(clip.duration, frame_count)) IN
              ~GetFrameFails(clip, t[1], t[2]) => Holds(frames, i - 1, f)

\* generate_preview: every sample point of every range whose frame decodes
\* is in the frames returned.
PreviewKeepsDecoded ==
    \A i \in 1..Len(PreviewRanges) :
        LET s == PreviewRanges[i][1]
            e == PreviewRanges[i][2]
            start_frame == (s * SrcFps) \div TicksPerSecond
            total_frames == (e * SrcFps) \div TicksPerSecond - start_frame
            desired_frames == ((e - s) * call.fps) \div TicksPerSecond
        IN \A j \in 0..(desired_frames - 1) :
              LET idx == start_frame + (j * total_frames * call.speed)
                                          \div (desired_frames * 100)
              IN (j * call.speed < desired_frames * 100 /\ total_frames > 0 /\ Decodes(idx))
                    => Holds(preview.frames, i - 1, j)

\* The fallback VideoFileClip.write_gif: every sample point of the clip
\* whose frame decodes is in the frames written.
FallbackKeepsDecoded(frames) ==
    LET start_frame == (loc.clip.start * SrcFps) \div TicksPerSecond
        total_frames == (loc.clip.end_time * SrcFps) \div TicksPerSecond - start_frame
        desired == ((loc.clip.end_time - loc.clip.start) * call.fps) \div TicksPerSecond
    IN \A k \in 0..(desired - 1) :
          LET idx == start_frame + (k * total_frames) \div desired IN
          (total_frames > 0 /\ Decodes(idx)) => Holds(frames, 0, k)

\* C22: a sampled frame that fails to decode is skipped, and every other
\* sample point of that segment and of the later ones whose frame decodes
\* is in the output, in generate_preview, in create_gif and in the fallback
\* VideoFileClip.write_gif.
C22_FailedFrameSkipped ==
    /\ preview.returned = "tuple" => PreviewKeepsDecoded
    /\ \A k \in 1..Len(written) :
          /\ written[k].by = "segments" => SegmentedKeepsDecoded(written[k].frames)
          /\ (written[k].by = "write_gif" /\ ~written[k].whole_clip) =>
                FallbackKeepsDecoded(written[k].frames)

\* C23: for every non-empty frame and every crop rectangle (x, y, w, h) of
\* non-negative integers, also one partly or wholly outside the frame or of
\* zero width or height, _apply_processing raises no error and returns a
\* frame of exactly the target (width, height).
C23_ProcessingTotal ==
    ap.out # None =>
        /\ ap.out[1] # Raises
        /\ ap.out[1] = <<ap.dimensions[2], ap.dimensions[1], 3>>

\* C24: whatever loads, previews and saves came before, the frames
\* save_file writes were generated from the source that is loaded when it
\* writes them, never from a source loaded earlier.
C24_SavedFromLoadedSource ==
    \A k \in 1..Len(saved) : saved[k].source = saved[k].loaded

\* C25: the frame rate save_file hands to the encoder is the adjusted frame
\* rate the saved preview frames were last played at, whatever was done to
\* the fps box and the speed slider in between.
C25_SavedAtPlayedRate ==
    \A k \in 1..Len(saved) : saved[k].fps_x100 = saved[k].played

\* C26: a load that fails leaves the processor's handle, video_path and
\* metadata, and so is_loaded(), as they were, and current_file is set
\* only while the processor holds an open source.
C26_FailedLoadKeepsState ==
    [][ /\ (/\ ld'.ret = <<FALSE>>
            /\ (ld' # ld \/ handles' # handles \/ current_file' # current_file))
           => (vp' = vp /\ CapIsOpened' = CapIsOpened)
        /\ current_file' # None => CapIsOpened'
      ]_vars

\* C27: the fallback VideoFileClip(path).subclip(s, e) is as the library's:
\* its duration is e - s and get_frame(t) reads the source frame at s + t,
\* so every frame create_gif takes for a segment through the fallback lies
\* inside [s, e) of the source.
C27_FallbackSubclip ==
    (env.impl = "fallback" /\ call.op = "create_gif" /\ pc = "frames") =>
        LET seg == call.segments[loc.i + 1] IN
        /\ loc.clip.duration = seg[2] - seg[1]
        /\ \A k \in 1..Len(loc.segment_frames) :
              LET fr == loc.segment_frames[k] IN
              /\ fr.src = SourceFrameAt(seg[1] * fr.t[2] + fr.t[1], fr.t[2])
              /\ fr.src * TicksPerSecond < seg[2] * SrcFps
              /\ (fr.src + 1) * TicksPerSecond > seg[1] * SrcFps

=============================================================================
